---- MODULE Spec2Model ----
(***************************************************************************)
(* Model of apps/ocr-service/main.py: the result normalizers               *)
(* (yomitoku_result_to_page, yomitoku_ocr_to_page), the tile endpoints     *)
(* (ocr_only_tiles_endpoint, layout_only_tiles_endpoint), the duplicate    *)
(* resolver (deduplicate_blocks_by_iou), calculate_bbox_iou, the engine    *)
(* handles of the process, and the file upload of the five endpoints.      *)
(*                                                                         *)
(* A Python float is a rational [n, d] in lowest terms that has FloatBits   *)
(* significant binary digits (CPython: 53); every float operation rounds   *)
(* its exact result to the nearest such number, ties to the even mantissa. *)
(* Tile specs use dyadic fractions (k/8) so that the product               *)
(* bbox_norm["x"] * page_width is exact.                                   *)
(***************************************************************************)
EXTENDS Integers, Sequences, FiniteSets, TLC

VARIABLES
    \* --- one request to a tile endpoint ---
    endpoint,          \* "ocr_only_tiles" or "layout_only_tiles"
    shared_instances,  \* pydantic keeps a BaseModel instance passed as a field value (v2) or copies it (v1)
    images,            \* the raster: sequence of [width, height]
    tile_specs,        \* json.loads(tiles): sequence of [pageIndex, bboxNormalized]
    pc,                \* position of the request handler
    page_idx,          \* loop variable of `for page_idx, img in enumerate(images)`
    tile_pos,          \* 1-based position in tiles_by_page[page_idx]
    all_blocks,        \* per-page pools
    all_tables,
    all_figures,
    pages,             \* pages: list[Page]
    response,          \* what the handler returned or raised
    tile_log,          \* history: one entry per engine call of the request
    events,            \* history: engine calls submitted and completed, resolver runs
    \* --- one call of a normalizer ---
    n_fn,              \* which normalizer is called
    n_raw,             \* its `result` argument
    n_out,             \* what it returned or raised
    n_pc,
    \* --- one call of deduplicate_blocks_by_iou (and a second one on its output) ---
    d_pool,
    d_thr,
    d_out,
    d_out2,
    d_pc,
    \* --- one tile placement computation ---
    p_box,
    p_size,
    p_out,
    p_pc,
    \* --- one call of calculate_bbox_iou ---
    i_bbox1,
    i_bbox2,
    i_out,
    i_pc,
    \* --- the process: engine handles and the requests in flight ---
    serving,           \* startup_event has run and requests are accepted
    handle_global,     \* the globals analyzer, lite_analyzer, ocr_module, layout_analyzer
    handle_built,      \* history: successful constructions of each handle
    requests,          \* per request: where its handler stands and, while it runs, its call
    \* --- one upload request, from the handler's entry to its response ---
    convert_from_bytes, \* the module global of lines 29-32: the pdf2image function or None
    u_path,            \* the endpoint called
    u_file,            \* the upload: [filename, content_type]
    u_dpi,             \* the dpi form field
    u_pc,              \* position of the handler
    u_raised,          \* history: what was raised inside the handler's try block, or None
    u_response         \* what the handler returned or raised

vars == <<endpoint, shared_instances, images, tile_specs, pc, page_idx, tile_pos,
          all_blocks, all_tables, all_figures, pages, response, tile_log, events,
          n_fn, n_raw, n_out, n_pc, d_pool, d_thr, d_out, d_out2, d_pc,
          p_box, p_size, p_out, p_pc, i_bbox1, i_bbox2, i_out, i_pc,
          serving, handle_global, handle_built, requests,
          convert_from_bytes, u_path, u_file, u_dpi, u_pc, u_raised, u_response>>

req_vars == <<endpoint, shared_instances, images, tile_specs, pc, page_idx, tile_pos,
              all_blocks, all_tables, all_figures, pages, response, tile_log, events>>
norm_vars == <<n_fn, n_raw, n_out, n_pc>>
dedup_vars == <<d_pool, d_thr, d_out, d_out2, d_pc>>
place_vars == <<p_box, p_size, p_out, p_pc>>
iou_vars == <<i_bbox1, i_bbox2, i_out, i_pc>>
handle_vars == <<serving, handle_global, handle_built, requests>>
upload_vars == <<convert_from_bytes, u_path, u_file, u_dpi, u_pc, u_raised, u_response>>

(***************************************************************************)
(* Bounds of the model.                                                    *)
(***************************************************************************)
MaxPages == 2      \* pages of a raster
MaxTiles == 2      \* tile specs of a request
MaxPool == 3       \* blocks handed to deduplicate_blocks_by_iou
MaxWords == 2      \* words of an OCR payload handed to a normalizer
MaxDim == 4        \* largest page width/height of a tile placement computation
MaxRequests == 3   \* requests the process serves
FloatBits == 6     \* significant binary digits of a float

DefaultDpi == 300  \* dpi: int = Form(300)

(***************************************************************************)
(* Python floats as exact rationals.                                       *)
(***************************************************************************)
Abs(i) == IF i < 0 THEN -i ELSE i

RECURSIVE GCD(_, _)
GCD(a, b) == IF b = 0 THEN a ELSE GCD(b, a % b)

Rat(n, d) ==
    LET g == GCD(Abs(n), Abs(d))
        s == IF d < 0 THEN -1 ELSE 1
    IN [n |-> (s * n) \div g, d |-> (s * d) \div g]

R(i) == [n |-> i, d |-> 1]
\* common factors are cancelled before multiplying, to keep the integers small
RAdd(a, b) ==
    LET g == GCD(a.d, b.d)
    IN Rat(a.n * (b.d \div g) + b.n * (a.d \div g), (a.d \div g) * b.d)
RSub(a, b) == RAdd(a, [n |-> 0 - b.n, d |-> b.d])
RMul(a, b) ==
    LET g1 == GCD(Abs(a.n), b.d)
        g2 == GCD(Abs(b.n), a.d)
    IN Rat((a.n \div g1) * (b.n \div g2), (a.d \div g2) * (b.d \div g1))
RDiv(a, b) == RMul(a, Rat(b.d, b.n))
RLt(a, b) ==
    LET g == GCD(a.d, b.d)
    IN a.n * (b.d \div g) < b.n * (a.d \div g)
RLe(a, b) == ~RLt(b, a)
RMax(a, b) == IF RLt(a, b) THEN b ELSE a
RMin(a, b) == IF RLt(b, a) THEN b ELSE a

\* Python round(x): nearest integer, ties to the even one.
PyRound(r) ==
    LET fl == r.n \div r.d
        rem == r.n - fl * r.d
    IN IF 2 * rem < r.d THEN fl
       ELSE IF 2 * rem > r.d THEN fl + 1
       ELSE IF fl % 2 = 0 THEN fl ELSE fl + 1

RECURSIVE Pow2(_)
Pow2(k) == IF k = 0 THEN 1 ELSE 2 * Pow2(k - 1)

\* mantissas lie in MantissaLo .. MantissaHi - 1
MantissaLo == Pow2(FloatBits - 1)
MantissaHi == Pow2(FloatBits)

RECURSIVE IsPow2(_)
IsPow2(d) == d = 1 \/ (d % 2 = 0 /\ IsPow2(d \div 2))

\* r is a float as it stands (a sufficient test)
IsFloat(r) == Abs(r.n) < MantissaHi /\ IsPow2(r.d)

RECURSIVE RoundScaled(_, _, _)
\* n/d > 0 times 2^e, rounded: n/d is brought into [MantissaLo, MantissaHi) by
\* doubling and halving, then rounded to the nearest integer, ties to even
RoundScaled(n, d, e) ==
    IF n \div d < MantissaLo
    THEN IF d % 2 = 0 THEN RoundScaled(n, d \div 2, e - 1) ELSE RoundScaled(2 * n, d, e - 1)
    ELSE IF n \div d >= MantissaHi
    THEN IF n % 2 = 0 THEN RoundScaled(n \div 2, d, e + 1) ELSE RoundScaled(n, 2 * d, e + 1)
    ELSE LET q == PyRound([n |-> n, d |-> d])
         IN IF e >= 0 THEN Rat(q * Pow2(e), 1) ELSE Rat(q, Pow2(0 - e))

\* the float nearest to the rational r (no overflow, no subnormals)
Fl(r) ==
    IF IsFloat(r) THEN r
    ELSE IF r.n > 0 THEN RoundScaled(r.n, r.d, 0)
    ELSE RSub(R(0), RoundScaled(0 - r.n, r.d, 0))

\* float +, -, *, /
FAdd(a, b) == Fl(RAdd(a, b))
FSub(a, b) == Fl(RSub(a, b))
FMul(a, b) == Fl(RMul(a, b))
FDiv(a, b) == Fl(RDiv(a, b))

\* Variant of PyInt: rounds to the nearest integer where the code truncates.
PyInt_Rounding(r) == PyRound(r)

\* Python int(x) on a float: truncation toward zero.
PyInt(r) == IF r.n >= 0 THEN r.n \div r.d ELSE -((-r.n) \div r.d)

\* Python max(1, n)
Max1(n) == IF n < 1 THEN 1 ELSE n

(***************************************************************************)
(* Python values whose type the code probes (isinstance, hasattr, `or`).   *)
(***************************************************************************)
PyNone == [t |-> "NoneType"]
PyStr(s) == [t |-> "str", v |-> s]
PyFloat(r) == [t |-> "float", v |-> r]
PyList(items) == [t |-> "list", v |-> items]
PyTuple(items) == [t |-> "tuple", v |-> items]
\* A dict is the record of its present keys plus the tag t |-> "dict"; a pydantic
\* object (hasattr(result, 'model_dump')) is the same record tagged "model".
EmptyDict == [t |-> "dict"]
IsDict(v) == v.t = "dict"
model_dump(v) == [v EXCEPT !.t = "dict"]

Truthy(v) ==
    CASE v.t = "NoneType" -> FALSE
      [] v.t = "str" -> v.v # ""
      [] v.t = "float" -> v.v.n # 0
      [] v.t \in {"tuple", "list"} -> Len(v.v) > 0
      [] v.t = "dict" -> DOMAIN v # {"t"}
      [] OTHER -> TRUE

\* Python `a or b`
PyOr(a, b) == IF Truthy(a) THEN a ELSE b

\* dict.get(key, default)
Get(d, k, default) == IF k \in DOMAIN d THEN d[k] ELSE default

Ok(v) == [exc |-> "", val |-> v]
Raised(e) == [exc |-> e, val |-> PyNone]

(***************************************************************************)
(* class BBox, calculate_bbox_iou                                          *)
(***************************************************************************)
BBox(x, y, w, h) == [x |-> x, y |-> y, w |-> w, h |-> h]

calculate_bbox_iou(bbox1, bbox2) ==
    LET x1_inter == RMax(bbox1.x, bbox2.x)
        y1_inter == RMax(bbox1.y, bbox2.y)
        x2_inter == RMin(FAdd(bbox1.x, bbox1.w), FAdd(bbox2.x, bbox2.w))
        y2_inter == RMin(FAdd(bbox1.y, bbox1.h), FAdd(bbox2.y, bbox2.h))
    IN IF RLe(x2_inter, x1_inter) \/ RLe(y2_inter, y1_inter)
       THEN R(0)
       ELSE LET intersection == FMul(FSub(x2_inter, x1_inter), FSub(y2_inter, y1_inter))
                area1 == FMul(bbox1.w, bbox1.h)
                area2 == FMul(bbox2.w, bbox2.h)
                union == FSub(FAdd(area1, area2), intersection)
            IN IF RLt(R(0), union) THEN FDiv(intersection, union) ELSE R(0)

(***************************************************************************)
(* deduplicate_blocks_by_iou                                               *)
(* Block == [text, bbox, blockType, lines], Line == [text, bbox, tokens],  *)
(* Token == [text, bbox, confidence].                                      *)
(***************************************************************************)
RECURSIVE TokenConfSum(_)
\* sum(t.confidence or 0.0 for t in tokens)
TokenConfSum(tokens) ==
    IF tokens = <<>> THEN R(0)
    ELSE FAdd(PyOr(Head(tokens).confidence, PyFloat(R(0))).v, TokenConfSum(Tail(tokens)))

RECURSIVE ConfSum(_)
\* sum(t.confidence or 0.0 for line in b.lines for t in line.tokens)
ConfSum(lines) ==
    IF lines = <<>> THEN R(0)
    ELSE FAdd(TokenConfSum(Head(lines).tokens), ConfSum(Tail(lines)))

RECURSIVE TokenCount(_)
\* sum(len(line.tokens) for line in b.lines)
TokenCount(lines) ==
    IF lines = <<>> THEN 0 ELSE Len(Head(lines).tokens) + TokenCount(Tail(lines))

\* the sort key of line 1125-1128: (mean confidence, len(b.text))
block_score(b) ==
    [conf |-> FDiv(ConfSum(b.lines), R(Max1(TokenCount(b.lines)))), len |-> Len(b.text)]

\* Python tuple comparison, lexicographic
ScoreLt(s1, s2) == RLt(s1.conf, s2.conf) \/ (s1.conf = s2.conf /\ s1.len < s2.len)
ScoreGe(s1, s2) == ~ScoreLt(s1, s2)

RECURSIVE InsertAsc(_, _)
InsertAsc(s, b) ==
    IF s = <<>> THEN <<b>>
    ELSE IF ScoreLt(block_score(b), block_score(Head(s))) THEN <<b>> \o s
    ELSE <<Head(s)>> \o InsertAsc(Tail(s), b)

RECURSIVE SortAscFrom(_, _, _)
SortAscFrom(blocks, i, acc) ==
    IF i > Len(blocks) THEN acc ELSE SortAscFrom(blocks, i + 1, InsertAsc(acc, blocks[i]))

\* Variant of sorted_blocks: the sort without reverse=True (ascending, stable).
sorted_blocks_Ascending(blocks) == SortAscFrom(blocks, 1, <<>>)

RECURSIVE InsertDesc(_, _)
\* b goes after every element whose key is >= its own: a stable descending sort
InsertDesc(s, b) ==
    IF s = <<>> THEN <<b>>
    ELSE IF ScoreLt(block_score(Head(s)), block_score(b)) THEN <<b>> \o s
    ELSE <<Head(s)>> \o InsertDesc(Tail(s), b)

RECURSIVE SortDescFrom(_, _, _)
SortDescFrom(blocks, i, acc) ==
    IF i > Len(blocks) THEN acc ELSE SortDescFrom(blocks, i + 1, InsertDesc(acc, blocks[i]))

\* sorted(blocks, key=..., reverse=True): stable, equal keys keep their input order
sorted_blocks(blocks) == SortDescFrom(blocks, 1, <<>>)

\* Variant of is_duplicate: `iou >= iou_threshold` where the code has `>`.
is_duplicate_Ge(block, kept_blocks, iou_threshold) ==
    \E i \in 1..Len(kept_blocks) :
        RLe(iou_threshold, calculate_bbox_iou(block.bbox, kept_blocks[i].bbox))

\* the inner loop of lines 1133-1138
is_duplicate(block, kept_blocks, iou_threshold) ==
    \E i \in 1..Len(kept_blocks) :
        RLt(iou_threshold, calculate_bbox_iou(block.bbox, kept_blocks[i].bbox))

RECURSIVE KeepLoop(_, _, _, _)
\* the outer loop of lines 1131-1141, from position i with kept_blocks = kept
KeepLoop(sorted, i, kept, iou_threshold) ==
    IF i > Len(sorted) THEN kept
    ELSE IF is_duplicate(sorted[i], kept, iou_threshold)
         THEN KeepLoop(sorted, i + 1, kept, iou_threshold)
         ELSE KeepLoop(sorted, i + 1, Append(kept, sorted[i]), iou_threshold)

\* Variant of kept_blocks: the loop starts at the second sorted block.
kept_blocks_SkipFirst(sorted, iou_threshold) == KeepLoop(sorted, 2, <<>>, iou_threshold)

kept_blocks(sorted, iou_threshold) == KeepLoop(sorted, 1, <<>>, iou_threshold)

\* Variant of deduplicate_blocks_by_iou: the greedy loop over the pool as given, unsorted.
deduplicate_blocks_by_iou_Unsorted(blocks, iou_threshold) ==
    IF Len(blocks) <= 1 THEN blocks
    ELSE kept_blocks(blocks, iou_threshold)

deduplicate_blocks_by_iou(blocks, iou_threshold) ==
    IF Len(blocks) <= 1 THEN blocks
    ELSE kept_blocks(sorted_blocks(blocks), iou_threshold)

\* iou_threshold=0.5 at both call sites
DefaultIouThreshold == Rat(1, 2)

(***************************************************************************)
(* The result normalizers.  A normalizer returns Ok([page, heap]) or        *)
(* Raised(exception).  The BBox objects it creates live in `heap` and the   *)
(* bbox fields of Block/Line/Token hold references into it, because the     *)
(* tile endpoints later mutate these objects in place: block, line and      *)
(* token are all built from one `bbox` object (lines 518-526, 367-397), and *)
(* whether their fields then hold that one object or copies of it is        *)
(* pydantic's doing (shared_instances).                                     *)
(***************************************************************************)
MkToken(text, bbox, confidence) == [text |-> text, bbox |-> bbox, confidence |-> confidence]
MkLine(text, bbox, tokens) == [text |-> text, bbox |-> bbox, tokens |-> tokens]
MkBlock(text, bbox, blockType, lines) ==
    [text |-> text, bbox |-> bbox, blockType |-> blockType, lines |-> lines]

\* what a BaseModel field holds after Model(field=obj): obj itself, or a copy
StoreField(obj, copy) == IF shared_instances THEN obj ELSE copy

SetMin(S) == CHOOSE m \in S : \A e \in S : m <= e
SetMax(S) == CHOOSE m \in S : \A e \in S : m >= e

\* the 4-point polygon of the unit square at (x, y)
Square(x, y) == <<<<x, y>>, <<x + 1, y>>, <<x + 1, y + 1>>, <<x, y + 1>>>>

DefaultPoints == <<<<0, 0>>, <<0, 0>>, <<0, 0>>, <<0, 0>>>>
DefaultBox == <<0, 0, 0, 0>>

\* Variant of points_to_bbox: the first and the third point taken as the two corners.
points_to_bbox_Corners(points) ==
    BBox(R(points[1][1]), R(points[1][2]),
         R(points[3][1] - points[1][1]), R(points[3][2] - points[1][2]))

\* lines 513-523: the enclosing rectangle of the polygon
points_to_bbox(points) ==
    LET xs == { points[i][1] : i \in 1..Len(points) }
        ys == { points[i][2] : i \in 1..Len(points) }
        x1 == SetMin(xs)
        x2 == SetMax(xs)
        y1 == SetMin(ys)
        y2 == SetMax(ys)
    IN BBox(Fl(R(x1)), Fl(R(y1)), Fl(R(x2 - x1)), Fl(R(y2 - y1)))

\* lines 366-372 (and 407-413, 424-436, 452-458): a two-corner box
box_to_bbox(bbox_data) ==
    BBox(Fl(R(bbox_data[1])), Fl(R(bbox_data[2])),
         Fl(R(bbox_data[3] - bbox_data[1])), Fl(R(bbox_data[4] - bbox_data[2])))

MkPage(page_index, dpi, width, height, blocks, tables, figures, reading_order) ==
    [pageIndex |-> page_index, dpi |-> dpi, widthPx |-> width, heightPx |-> height,
     blocks |-> blocks, tables |-> tables, figures |-> figures,
     readingOrder |-> reading_order]

\* lines 512-527: word i of the payload; its BBox object is heap[3i-2]
ocr_word_block(word, i) ==
    LET obj == 3 * i - 2
        text == PyOr(Get(word, "content", PyStr("")), PyStr("")).v
        token == MkToken(text, StoreField(obj, obj), Get(word, "rec_score", PyNone))
        line == MkLine(token.text, StoreField(obj, obj + 1), <<token>>)
    IN MkBlock(token.text, StoreField(obj, obj + 2), "ocr_word", <<line>>)

yomitoku_ocr_to_page(result, page_index, dpi, width, height) ==
    LET r1 == IF result.t = "model" THEN model_dump(result) ELSE result
        words == IF IsDict(r1) /\ "words" \in DOMAIN r1 THEN r1.words
                 ELSE IF r1.t = "tuple" /\ Len(r1.v) > 0
                      THEN LET first == r1.v[1]
                           IN IF IsDict(first) THEN Get(first, "words", <<>>) ELSE <<>>
                      ELSE <<>>
        blocks == [i \in 1..Len(words) |-> ocr_word_block(words[i], i)]
        heap == [k \in 1..(3 * Len(words)) |->
                    points_to_bbox(Get(words[(k + 2) \div 3], "points", DefaultPoints))]
    IN Ok([page |-> MkPage(page_index, dpi, width, height, blocks, PyNone, PyNone, PyNone),
           heap |-> heap])

\* lines 364-398: paragraph i; its BBox object is heap[2i-1]
paragraph_block(paragraph, i) ==
    LET obj == 2 * i - 1
        text_content == PyOr(Get(paragraph, "contents", PyStr("")), PyStr("")).v
        role == PyOr(Get(paragraph, "role", PyNone), PyStr("text"))
        direction == PyOr(Get(paragraph, "direction", PyNone), PyStr("horizontal"))
        block_type == IF Truthy(role) THEN role.v ELSE "paragraph_" \o direction.v
        line == MkLine(text_content, StoreField(obj, obj), <<>>)
    IN MkBlock(text_content, StoreField(obj, obj + 1), block_type, <<line>>)

\* lines 423-437
table_cell(cell_data) ==
    [rowIndex |-> Get(cell_data, "row", 0),
     colIndex |-> Get(cell_data, "col", 0),
     rowSpan |-> Get(cell_data, "row_span", 1),
     colSpan |-> Get(cell_data, "col_span", 1),
     text |-> PyOr(Get(cell_data, "contents", PyStr("")), PyStr("")).v,
     bbox |-> box_to_bbox(Get(cell_data, "box", DefaultBox))]

\* lines 405-445
table_of(table_data) ==
    LET cells_data == Get(table_data, "cells", <<>>)
    IN [bbox |-> box_to_bbox(Get(table_data, "box", DefaultBox)),
        rows |-> Get(table_data, "n_row", 0),
        cols |-> Get(table_data, "n_col", 0),
        cells |-> [c \in 1..Len(cells_data) |-> table_cell(cells_data[c])]]

\* lines 450-469
figure_of(figure_data) ==
    LET direction == Get(figure_data, "direction", PyNone)
    IN [bbox |-> box_to_bbox(Get(figure_data, "box", DefaultBox)),
        figureType |-> IF Truthy(direction) THEN "figure_" \o direction.v ELSE "figure"]

\* The all_words list of lines 334-352 is built and never read; it is left out.
yomitoku_result_to_page(result, page_index, dpi, width, height) ==
    LET r0 == IF result.t = "tuple" /\ Len(result.v) > 0 THEN result.v[1] ELSE result
        r1 == IF r0.t = "model" THEN model_dump(r0) ELSE r0
        paragraphs == IF IsDict(r1) /\ "paragraphs" \in DOMAIN r1 THEN r1.paragraphs ELSE <<>>
        tables_data == IF IsDict(r1) /\ "tables" \in DOMAIN r1 THEN r1.tables ELSE <<>>
        figures_data == IF IsDict(r1) /\ "figures" \in DOMAIN r1 THEN r1.figures ELSE <<>>
        blocks == [i \in 1..Len(paragraphs) |-> paragraph_block(paragraphs[i], i)]
        heap == [k \in 1..(2 * Len(paragraphs)) |->
                    box_to_bbox(Get(paragraphs[(k + 1) \div 2], "box", DefaultBox))]
        tables == [i \in 1..Len(tables_data) |-> table_of(tables_data[i])]
        figures == [i \in 1..Len(figures_data) |-> figure_of(figures_data[i])]
    IN IF ~IsDict(r1)
       THEN Raised("AttributeError")   \* line 472: result.get on a value that has no get
       ELSE Ok([page |-> MkPage(page_index, dpi, width, height, blocks,
                                IF Len(tables) > 0 THEN PyList(tables) ELSE PyNone,
                                IF Len(figures) > 0 THEN PyList(figures) ELSE PyNone,
                                Get(r1, "reading_order", PyNone)),
                heap |-> heap])

\* the Page as a value: every bbox field replaced by the object it refers to
deref_token(token, heap) == [token EXCEPT !.bbox = heap[token.bbox]]
deref_line(line, heap) ==
    [line EXCEPT !.bbox = heap[line.bbox],
                 !.tokens = [t \in 1..Len(line.tokens) |-> deref_token(line.tokens[t], heap)]]
deref_block(block, heap) ==
    [block EXCEPT !.bbox = heap[block.bbox],
                  !.lines = [l \in 1..Len(block.lines) |-> deref_line(block.lines[l], heap)]]
page_value(np) ==
    [np.page EXCEPT !.blocks = [i \in 1..Len(np.page.blocks) |->
                                    deref_block(np.page.blocks[i], np.heap)]]

\* run_module_once, applied to what module_callable(image_data) returned
run_module_once(res) ==
    LET r0 == IF res.t = "tuple" THEN (IF Len(res.v) > 0 THEN res.v[1] ELSE EmptyDict) ELSE res
    IN IF r0.t = "model" THEN model_dump(r0)
       ELSE IF IsDict(r0) THEN r0
       ELSE EmptyDict      \* dict(res) raises for None, a non-empty str, ...: except -> {}

(***************************************************************************)
(* Each specification runs one part of the program; the variables of the   *)
(* other parts stay idle.                                                  *)
(***************************************************************************)
ReqIdle ==
    /\ endpoint = "none" /\ shared_instances = FALSE /\ images = <<>> /\ tile_specs = <<>>
    /\ pc = "idle" /\ page_idx = 0 /\ tile_pos = 0
    /\ all_blocks = <<>> /\ all_tables = <<>> /\ all_figures = <<>>
    /\ pages = <<>> /\ response = PyNone /\ tile_log = <<>> /\ events = <<>>

NormIdle == n_fn = "none" /\ n_raw = PyNone /\ n_out = PyNone /\ n_pc = "idle"

DedupIdle == d_pool = <<>> /\ d_thr = R(0) /\ d_out = <<>> /\ d_out2 = <<>> /\ d_pc = "idle"

PlaceIdle == p_box = PyNone /\ p_size = PyNone /\ p_out = PyNone /\ p_pc = "idle"

IouIdle == i_bbox1 = PyNone /\ i_bbox2 = PyNone /\ i_out = PyNone /\ i_pc = "idle"

HandleIdle ==
    serving = FALSE /\ handle_global = <<>> /\ handle_built = <<>> /\ requests = <<>>

UploadIdle ==
    /\ convert_from_bytes = PyNone /\ u_path = "" /\ u_file = PyNone /\ u_dpi = 0
    /\ u_pc = "idle" /\ u_raised = PyNone /\ u_response = PyNone

(***************************************************************************)
(* Specification SpecNorm: one call of a normalizer on a raw engine result. *)
(***************************************************************************)
\* a dict with the keys ks, key k holding vals[k]
DictOf(ks, vals) == [k \in ks \cup {"t"} |-> IF k = "t" THEN "dict" ELSE vals[k]]

\* a word with a score, a word on a slanted polygon without a score, a word without
\* points (the default polygon, of no extent) whose content is None
RawWords ==
    { [t |-> "dict", points |-> Square(1, 0), content |-> PyStr("A"),
       rec_score |-> PyFloat(Rat(1, 2))],
      [t |-> "dict", points |-> <<<<0, 1>>, <<2, 0>>, <<3, 1>>, <<1, 2>>>>,
       content |-> PyStr("AA")],
      [t |-> "dict", content |-> PyNone, rec_score |-> PyFloat(R(0))] }

RawWordLists == UNION { [1..n -> RawWords] : n \in 0..MaxWords }

RawParagraph1 ==
    [t |-> "dict", box |-> <<10, 10, 50, 30>>, contents |-> PyStr("hi"), role |-> PyNone,
     direction |-> PyStr("horizontal")]
RawParagraph2 ==
    [t |-> "dict", box |-> <<0, 0, 1, 1>>, contents |-> PyStr(""),
     role |-> PyStr("section_headings"), direction |-> PyStr("vertical")]
\* no role key; the corners are given bottom-right first
RawParagraph3 ==
    [t |-> "dict", box |-> <<2, 2, 1, 1>>, contents |-> PyNone, direction |-> PyStr("vertical")]

RawParagraphLists ==
    { <<>>, <<RawParagraph1>>, <<RawParagraph3>>, <<RawParagraph2, RawParagraph1>> }

RawTable ==
    [t |-> "dict", box |-> <<0, 0, 2, 2>>, n_row |-> 1, n_col |-> 2,
     cells |-> << [t |-> "dict", row |-> 1, col |-> 1, row_span |-> 1, col_span |-> 1,
                   box |-> <<0, 0, 1, 2>>, contents |-> PyStr("a")],
                  [t |-> "dict", col |-> 2, box |-> <<1, 0, 2, 2>>, contents |-> PyNone] >>]

RawFigure1 == [t |-> "dict", box |-> <<1, 1, 2, 2>>]
RawFigure2 == [t |-> "dict", box |-> <<0, 1, 2, 2>>, direction |-> PyStr("vertical")]

KnownKeys == {"words", "paragraphs", "tables", "figures", "reading_order"}

\* the values a present key can hold (one placeholder when the key is absent)
KeyValues(ks, k, values) == IF k \in ks THEN values ELSE {<<>>}

RawDicts ==
    UNION { { DictOf(ks, [words |-> w, paragraphs |-> p, tables |-> tb, figures |-> f,
                          reading_order |-> PyList(<<0>>)]) :
                w \in KeyValues(ks, "words", RawWordLists),
                p \in KeyValues(ks, "paragraphs", RawParagraphLists),
                tb \in KeyValues(ks, "tables", {<<>>, <<RawTable>>}),
                f \in KeyValues(ks, "figures", {<<RawFigure1>>, <<RawFigure1, RawFigure2>>}) } :
            ks \in SUBSET KnownKeys }

\* the same payloads as pydantic objects
RawModels == { [d EXCEPT !.t = "model"] : d \in RawDicts }

RawPayloads == RawDicts \cup RawModels \cup { PyNone, PyStr("error"), PyList(<<>>) }

Visualizations == { PyNone, PyStr("vis") }

RawResults ==
    RawPayloads \cup { PyTuple(<<>>) }
                \cup { PyTuple(<<p, vis>>) : p \in RawPayloads, vis \in Visualizations }

Normalizers == {"yomitoku_result_to_page", "yomitoku_ocr_to_page"}

InitNorm ==
    /\ ReqIdle /\ DedupIdle /\ PlaceIdle /\ IouIdle /\ HandleIdle /\ UploadIdle
    /\ n_fn \in Normalizers
    /\ n_raw \in RawResults
    /\ n_out = PyNone
    /\ n_pc = "start"

\* a call of normalizer fn; the Page is taken as a value
normalize(fn, raw) ==
    LET np == IF fn = "yomitoku_result_to_page"
              THEN yomitoku_result_to_page(raw, 0, DefaultDpi, MaxDim, MaxDim)
              ELSE yomitoku_ocr_to_page(raw, 0, DefaultDpi, MaxDim, MaxDim)
    IN IF np.exc = "" THEN Ok(page_value(np.val)) ELSE np

\* the normalizer called on the raw result itself
NormalizerCall ==
    /\ n_pc = "start"
    /\ n_out' = normalize(n_fn, n_raw)
    /\ n_pc' = "returned"
    /\ UNCHANGED <<n_fn, n_raw, req_vars, dedup_vars, place_vars, iou_vars, handle_vars, upload_vars>>

\* the way of the endpoints: run_module_once on what the engine returned, then the
\* normalizer on its result
RunThenNormalize ==
    /\ n_pc = "start"
    /\ n_out' = normalize(n_fn, run_module_once(n_raw))
    /\ n_pc' = "returned_via_run"
    /\ UNCHANGED <<n_fn, n_raw, req_vars, dedup_vars, place_vars, iou_vars, handle_vars, upload_vars>>

NextNorm == NormalizerCall \/ RunThenNormalize

SpecNorm == InitNorm /\ [][NextNorm]_vars

\* a raw result of no shape the normalizers know: neither a dict nor a pydantic object
\* (nor a pair holding one first), or a dict without any known field
UnrecognizedShape(raw) ==
    LET payload == IF raw.t = "tuple" /\ Len(raw.v) > 0 THEN raw.v[1] ELSE raw
    IN \/ payload.t \notin {"dict", "model"}
       \/ payload.t = "dict" /\ DOMAIN payload \cap KnownKeys = {}

EmptyPage(page) == page.blocks = <<>> /\ page.tables = PyNone /\ page.figures = PyNone

\* C3: for a raw result whose shape it does not recognize (not a dict, an empty
\* tuple, a dict with none of the known fields) a normalizer never raises and
\* returns a Page with no blocks, no tables and no figures.
C3_UnrecognizedGivesEmptyPage ==
    (n_pc = "returned" /\ UnrecognizedShape(n_raw)) =>
        (n_out.exc = "" /\ EmptyPage(n_out.val))

\* every call returns or raises, and yomitoku_ocr_to_page never raises
NormTypeOK ==
    n_pc = "returned" =>
        /\ n_out.exc \in {"", "AttributeError"}
        /\ n_fn = "yomitoku_ocr_to_page" => n_out.exc = ""
        /\ (n_fn = "yomitoku_result_to_page" /\ n_out.exc # "") => UnrecognizedShape(n_raw)

\* the payload of a raw result as the claims speak of it: the first element of a
\* (result, visualization) pair, a pydantic object read as its dict
PayloadOf(raw) ==
    LET first == IF raw.t = "tuple" /\ Len(raw.v) > 0 THEN raw.v[1] ELSE raw
    IN IF first.t = "model" THEN [first EXCEPT !.t = "dict"] ELSE first

HasField(payload, k) == payload.t = "dict" /\ k \in DOMAIN payload

\* a paragraph has a role when its record holds a non-empty role string
HasRole(paragraph) ==
    "role" \in DOMAIN paragraph /\ paragraph.role.t = "str" /\ paragraph.role.v # ""

DirectionOf(paragraph) ==
    IF "direction" \in DOMAIN paragraph /\ paragraph.direction.t = "str"
                                        /\ paragraph.direction.v # ""
    THEN paragraph.direction.v ELSE "horizontal"

RoleOrDirectionTag(paragraph) ==
    IF HasRole(paragraph) THEN paragraph.role.v ELSE "paragraph_" \o DirectionOf(paragraph)

\* C11: yomitoku_result_to_page turns each paragraph record into one Block whose
\* blockType is the paragraph's role when it has one, and otherwise the
\* direction-qualified fallback tag "paragraph_<direction>" (absent direction:
\* "horizontal").
C11_BlockTypeRoleOrDirection ==
    (/\ n_pc = "returned"
     /\ n_fn = "yomitoku_result_to_page"
     /\ HasField(PayloadOf(n_raw), "paragraphs")) =>
        /\ n_out.exc = ""
        /\ Len(n_out.val.blocks) = Len(PayloadOf(n_raw).paragraphs)
        /\ \A i \in 1..Len(n_out.val.blocks) :
              n_out.val.blocks[i].blockType = RoleOrDirectionTag(PayloadOf(n_raw).paragraphs[i])

\* the part of C11 the code does meet: one Block per paragraph, with the role as
\* blockType for every paragraph that has a role
RoleBecomesBlockType ==
    (/\ n_pc = "returned"
     /\ n_fn = "yomitoku_result_to_page"
     /\ HasField(PayloadOf(n_raw), "paragraphs")) =>
        /\ n_out.exc = ""
        /\ Len(n_out.val.blocks) = Len(PayloadOf(n_raw).paragraphs)
        /\ \A i \in 1..Len(n_out.val.blocks) :
              HasRole(PayloadOf(n_raw).paragraphs[i]) =>
                n_out.val.blocks[i].blockType = PayloadOf(n_raw).paragraphs[i].role.v

\* b is the smallest axis-parallel rectangle that holds every point of the polygon
IsEnclosingRect(b, points) ==
    /\ \A i \in 1..Len(points) :
          /\ RLe(b.x, R(points[i][1])) /\ RLe(R(points[i][1]), RAdd(b.x, b.w))
          /\ RLe(b.y, R(points[i][2])) /\ RLe(R(points[i][2]), RAdd(b.y, b.h))
    /\ \E i \in 1..Len(points) : b.x = R(points[i][1])
    /\ \E i \in 1..Len(points) : RAdd(b.x, b.w) = R(points[i][1])
    /\ \E i \in 1..Len(points) : b.y = R(points[i][2])
    /\ \E i \in 1..Len(points) : RAdd(b.y, b.h) = R(points[i][2])

\* the text of a word: its content, the empty string when it has none
WordText(word) ==
    IF "content" \in DOMAIN word /\ word.content.t = "str" THEN word.content.v ELSE ""

\* text and, for a word that has points, rectangle of a Block, Line or Token
CarriesWord(entity, word) ==
    /\ entity.text = WordText(word)
    /\ "points" \in DOMAIN word => IsEnclosingRect(entity.bbox, word.points)

\* C12: yomitoku_ocr_to_page on a payload of n words returns n Blocks in payload
\* order; Block i has blockType "ocr_word" and one Line with one Token, all three with
\* the text and the enclosing rectangle of word i; the Token's confidence is the
\* word's recognition score, and None (not 0) when the word has none.
C12_OneBlockPerWord ==
    (/\ n_pc = "returned"
     /\ n_fn = "yomitoku_ocr_to_page"
     /\ n_raw.t \in {"dict", "model"}
     /\ "words" \in DOMAIN n_raw) =>
        /\ n_out.exc = ""
        /\ Len(n_out.val.blocks) = Len(n_raw.words)
        /\ \A i \in 1..Len(n_out.val.blocks) :
              LET block == n_out.val.blocks[i]
                  word == n_raw.words[i]
              IN /\ block.blockType = "ocr_word"
                 /\ CarriesWord(block, word)
                 /\ Len(block.lines) = 1
                 /\ CarriesWord(block.lines[1], word)
                 /\ Len(block.lines[1].tokens) = 1
                 /\ CarriesWord(block.lines[1].tokens[1], word)
                 /\ block.lines[1].tokens[1].confidence =
                        (IF "rec_score" \in DOMAIN word THEN word.rec_score ELSE PyNone)

\* a payload of two different words, the second on a slanted polygon and without
\* a recognition score
C12_Witness ==
    /\ n_pc = "returned"
    /\ n_fn = "yomitoku_ocr_to_page"
    /\ n_raw.t = "dict" /\ "words" \in DOMAIN n_raw
    /\ Len(n_raw.words) = 2
    /\ n_raw.words[1] # n_raw.words[2]
    /\ "rec_score" \in DOMAIN n_raw.words[1]
    /\ "rec_score" \notin DOMAIN n_raw.words[2]
    /\ n_raw.words[2].points[1] = <<0, 1>>
    /\ Len(n_out.val.blocks) = 2
    /\ n_out.val.blocks[2].lines[1].tokens[1].confidence = PyNone
    /\ n_out.val.blocks[2].bbox = BBox(R(0), R(0), R(3), R(2))

NonNegativeExtent(bbox) == RLe(R(0), bbox.w) /\ RLe(R(0), bbox.h)

\* every bbox of a block, of its lines and of their tokens
BlockExtentsNonNegative(block) ==
    /\ NonNegativeExtent(block.bbox)
    /\ \A l \in 1..Len(block.lines) :
          /\ NonNegativeExtent(block.lines[l].bbox)
          /\ \A t \in 1..Len(block.lines[l].tokens) :
                NonNegativeExtent(block.lines[l].tokens[t].bbox)

\* every bbox of a Page value: blocks, tables with their cells, figures
PageExtentsNonNegative(page) ==
    /\ \A i \in 1..Len(page.blocks) : BlockExtentsNonNegative(page.blocks[i])
    /\ page.tables.t = "list" =>
          \A i \in 1..Len(page.tables.v) :
              /\ NonNegativeExtent(page.tables.v[i].bbox)
              /\ \A c \in 1..Len(page.tables.v[i].cells) :
                    NonNegativeExtent(page.tables.v[i].cells[c].bbox)
    /\ page.figures.t = "list" =>
          \A i \in 1..Len(page.figures.v) : NonNegativeExtent(page.figures.v[i].bbox)

\* C14: every BBox a normalizer produces, from a two-corner box or from a polygon,
\* has w >= 0 and h >= 0, for every engine result.
C14_ExtentsNonNegative ==
    (n_pc = "returned" /\ n_out.exc = "") => PageExtentsNonNegative(n_out.val)

\* the part of C14 that the code meets: the boxes made from polygons
PolygonExtentsNonNegative ==
    (n_pc = "returned" /\ n_fn = "yomitoku_ocr_to_page") =>
        (n_out.exc = "" /\ PageExtentsNonNegative(n_out.val))

IsPair(raw) == raw.t = "tuple" /\ Len(raw.v) = 2

\* C19: for a pair (result, visualization) only the first element is used:
\* run_module_once followed by a normalizer, and each normalizer applied to the pair
\* itself, give the Page they give for the first element alone, whatever the second
\* element is.
C19_PairUsesFirstOnly ==
    IsPair(n_raw) =>
        /\ n_pc = "returned" => n_out = normalize(n_fn, n_raw.v[1])
        /\ n_pc = "returned_via_run" => n_out = normalize(n_fn, run_module_once(n_raw.v[1]))

\* the part of C19 that the code meets: the way through run_module_once, and
\* yomitoku_result_to_page on the pair itself
PairUnwrappedFirst ==
    IsPair(n_raw) =>
        /\ (n_pc = "returned" /\ n_fn = "yomitoku_result_to_page")
              => n_out = normalize(n_fn, n_raw.v[1])
        /\ n_pc = "returned_via_run" => n_out = normalize(n_fn, run_module_once(n_raw.v[1]))

(***************************************************************************)
(* The tile endpoints: ocr_only_tiles_endpoint, layout_only_tiles_endpoint. *)
(***************************************************************************)
\* lines 852-858: tiles_by_page[p], in the order of the request
tiles_by_page(p) == SelectSeq(tile_specs, LAMBDA spec : spec.pageIndex = p)

\* lines 878-881: int(bbox_norm[...] * page_width) and so on
tile_placement(bbox_norm, page_width, page_height) ==
    [x_px |-> PyInt(FMul(bbox_norm.x, R(page_width))),
     y_px |-> PyInt(FMul(bbox_norm.y, R(page_height))),
     w_px |-> PyInt(FMul(bbox_norm.w, R(page_width))),
     h_px |-> PyInt(FMul(bbox_norm.h, R(page_height)))]

\* lines 905-908: the four assignments to one BBox object
remap_bbox(b, x_px, y_px, page_width, page_height) ==
    BBox(FDiv(FAdd(b.x, R(x_px)), R(page_width)),
         FDiv(FAdd(b.y, R(y_px)), R(page_height)),
         FDiv(b.w, R(page_width)),
         FDiv(b.h, R(page_height)))

RECURSIVE line_refs(_, _)
\* the objects written for lines[l..]: each line's bbox, then its tokens' bboxes
line_refs(lines, l) ==
    IF l > Len(lines) THEN <<>>
    ELSE <<lines[l].bbox>>
         \o [t \in 1..Len(lines[l].tokens) |-> lines[l].tokens[t].bbox]
         \o line_refs(lines, l + 1)

RECURSIVE block_refs(_, _)
\* lines 903-921: the objects written, in the order the loops write them
block_refs(blocks, i) ==
    IF i > Len(blocks) THEN <<>>
    ELSE <<blocks[i].bbox>> \o line_refs(blocks[i].lines, 1) \o block_refs(blocks, i + 1)

RECURSIVE remap_heap(_, _, _, _, _)
\* the writes of lines 903-921 applied to the objects refs[k..], one after the other
remap_heap(heap, refs, k, pl, img) ==
    IF k > Len(refs) THEN heap
    ELSE remap_heap([heap EXCEPT ![refs[k]] =
                        remap_bbox(heap[refs[k]], pl.x_px, pl.y_px, img.width, img.height)],
                    refs, k + 1, pl, img)

\* the blocks of tile_page after the loops of lines 903-923, as values
remapped_blocks(np, pl, img) ==
    LET heap == remap_heap(np.heap, block_refs(np.page.blocks, 1), 1, pl, img)
    IN [i \in 1..Len(np.page.blocks) |-> deref_block(np.page.blocks[i], heap)]

\* lines 1073-1085
remapped_table(table, pl, img) ==
    [table EXCEPT
        !.bbox = remap_bbox(table.bbox, pl.x_px, pl.y_px, img.width, img.height),
        !.cells = [c \in 1..Len(table.cells) |->
                     [table.cells[c] EXCEPT
                        !.bbox = remap_bbox(table.cells[c].bbox, pl.x_px, pl.y_px,
                                            img.width, img.height)]]]

remapped_tables(page, pl, img) ==
    IF Truthy(page.tables)
    THEN [i \in 1..Len(page.tables.v) |-> remapped_table(page.tables.v[i], pl, img)]
    ELSE <<>>

\* lines 1087-1093
remapped_figures(page, pl, img) ==
    IF Truthy(page.figures)
    THEN [i \in 1..Len(page.figures.v) |->
            [page.figures.v[i] EXCEPT
                !.bbox = remap_bbox(page.figures.v[i].bbox, pl.x_px, pl.y_px,
                                    img.width, img.height)]]
    ELSE <<>>

\* the normalizer each endpoint calls (lines 894, 1041)
tile_normalizer(result, page_index, dpi, width, height) ==
    IF endpoint = "ocr_only_tiles"
    THEN yomitoku_ocr_to_page(result, page_index, dpi, width, height)
    ELSE yomitoku_result_to_page(result, page_index, dpi, width, height)

HTTPException(status, detail) == [kind |-> "HTTPException", status |-> status, detail |-> detail]
OCRResponse(resp_pages, model) ==
    [kind |-> "OCRResponse", status |-> 200, pages |-> resp_pages, model |-> model]

\* lines 942-943, 1112-1113: except Exception as e -> HTTPException(500) whose detail
\* is the f-string of a fixed prefix and str(e), kept as the sequence of its parts
tile_failure(e) ==
    HTTPException(500, << IF endpoint = "ocr_only_tiles" THEN "Tile OCR processing failed: "
                          ELSE "Tile layout processing failed: ", e >>)

\* str(e) of what an engine call raises; the engine is handed the pixels of the tile
\* and nothing else
EngineErrors == { "CUDA out of memory" }

cur_tiles == tiles_by_page(page_idx)
cur_img == images[page_idx + 1]
cur_placement == tile_placement(cur_tiles[tile_pos].bboxNormalized, cur_img.width, cur_img.height)

\* an event of the tile being processed (of the page, for the resolver's run)
Event(kind) ==
    [kind |-> kind, pageIndex |-> page_idx, tile |-> IF kind = "resolve" THEN 0 ELSE tile_pos]

\* Variant of SkipPage: a page without tile spec yields a Page without blocks.
SkipPage_EmitEmpty ==
    /\ pc = "page_loop"
    /\ page_idx < Len(images)
    /\ cur_tiles = <<>>
    /\ pages' = Append(pages, MkPage(page_idx, DefaultDpi, cur_img.width, cur_img.height,
                                     <<>>, PyNone, PyNone, PyNone))
    /\ page_idx' = page_idx + 1
    /\ UNCHANGED <<endpoint, shared_instances, images, tile_specs, pc, tile_pos, all_blocks,
                   all_tables, all_figures, response, tile_log, events,
                   norm_vars, dedup_vars, place_vars, iou_vars, handle_vars, upload_vars>>

\* lines 863-865: a page without tile spec is passed over
SkipPage ==
    /\ pc = "page_loop"
    /\ page_idx < Len(images)
    /\ cur_tiles = <<>>
    /\ page_idx' = page_idx + 1
    /\ UNCHANGED <<endpoint, shared_instances, images, tile_specs, pc, tile_pos, all_blocks,
                   all_tables, all_figures, pages, response, tile_log, events,
                   norm_vars, dedup_vars, place_vars, iou_vars, handle_vars, upload_vars>>

\* lines 867-871, 1012-1018: a page with tile specs starts with empty pools
BeginPage ==
    /\ pc = "page_loop"
    /\ page_idx < Len(images)
    /\ cur_tiles # <<>>
    /\ all_blocks' = <<>> /\ all_tables' = <<>> /\ all_figures' = <<>>
    /\ tile_pos' = 1
    /\ pc' = "tile_loop"
    /\ UNCHANGED <<endpoint, shared_instances, images, tile_specs, page_idx, pages, response,
                   tile_log, events, norm_vars, dedup_vars, place_vars, iou_vars, handle_vars, upload_vars>>

\* lines 874-890: the next tile is cropped and its engine call submitted and awaited
DispatchTile ==
    /\ pc = "tile_loop"
    /\ tile_pos <= Len(cur_tiles)
    /\ pc' = "awaiting"
    /\ events' = Append(events, Event("submit"))
    /\ UNCHANGED <<endpoint, shared_instances, images, tile_specs, page_idx, tile_pos,
                   all_blocks, all_tables, all_figures, pages, response, tile_log,
                   norm_vars, dedup_vars, place_vars, iou_vars, handle_vars, upload_vars>>

\* the log entry of the tile being processed
LogEntry(outcome, tile_page, mapped_blocks) ==
    [pageIndex |-> page_idx, tile |-> tile_pos, spec |-> cur_tiles[tile_pos],
     placement |-> cur_placement, outcome |-> outcome,
     local |-> tile_page.blocks,
     tables |-> IF Truthy(tile_page.tables) THEN tile_page.tables.v ELSE <<>>,
     figures |-> IF Truthy(tile_page.figures) THEN tile_page.figures.v ELSE <<>>,
     mapped |-> mapped_blocks]

\* the log's stand-in for the tile page of a tile that got none
NoTilePage == MkPage(0, DefaultDpi, 0, 0, <<>>, PyNone, PyNone, PyNone)

\* lines 888-923, 1035-1093: the engine call returned `res`; the result is normalized,
\* remapped into page space and accumulated
TileReturnsWith(res) ==
    LET tile_result == run_module_once(res)
        np == tile_normalizer(tile_result, page_idx, DefaultDpi,
                              cur_placement.w_px, cur_placement.h_px)
    IN IF np.exc # ""
       THEN /\ response' = tile_failure(np.exc)
            /\ pc' = "failed"
            /\ tile_log' = Append(tile_log, LogEntry("conversion_failed", NoTilePage, <<>>))
            /\ events' = Append(events, Event("raised"))
            /\ UNCHANGED <<tile_pos, all_blocks, all_tables, all_figures>>
       ELSE LET mapped == remapped_blocks(np.val, cur_placement, cur_img)
            IN /\ all_blocks' = all_blocks \o mapped
               /\ all_tables' = IF endpoint = "layout_only_tiles"
                                THEN all_tables \o remapped_tables(np.val.page, cur_placement, cur_img)
                                ELSE all_tables
               /\ all_figures' = IF endpoint = "layout_only_tiles"
                                 THEN all_figures \o remapped_figures(np.val.page, cur_placement, cur_img)
                                 ELSE all_figures
               /\ tile_pos' = tile_pos + 1
               /\ pc' = "tile_loop"
               /\ tile_log' = Append(tile_log,
                                     LogEntry("ok", page_value(np.val), mapped))
               /\ events' = Append(events, Event("accumulated"))
               /\ UNCHANGED response

\* what the engine returns for a tile: (schema object, visualization)
WordAt(x, y, text, score) ==
    [t |-> "dict", points |-> Square(x, y), content |-> PyStr(text), rec_score |-> score]

OcrEngineResults ==
    { PyTuple(<<[t |-> "model", words |-> ws], PyNone>>) :
        ws \in { <<WordAt(1, 0, "A", PyFloat(Rat(1, 2)))>>,
                 <<WordAt(0, 0, "A", PyFloat(Rat(1, 2)))>> } }

ParagraphAt(x, y, text) ==
    [t |-> "dict", box |-> <<x, y, x + 1, y + 1>>, contents |-> PyStr(text), role |-> PyNone,
     direction |-> PyStr("horizontal")]

LayoutSchema(ps, tb, f) ==
    [t |-> "model", paragraphs |-> ps, tables |-> tb, figures |-> f, words |-> <<>>]

LayoutEngineResults ==
    { PyTuple(<<LayoutSchema(<<ParagraphAt(1, 0, "")>>, <<RawTable>>, <<>>), PyNone>>),
      PyTuple(<<LayoutSchema(<<ParagraphAt(0, 0, "")>>, <<>>, <<RawFigure1, RawFigure2>>),
                PyNone>>) }

EngineResults == IF endpoint = "ocr_only_tiles" THEN OcrEngineResults ELSE LayoutEngineResults

TileReturns ==
    /\ pc = "awaiting"
    /\ \E res \in EngineResults : TileReturnsWith(res)
    /\ UNCHANGED <<endpoint, shared_instances, images, tile_specs, page_idx, pages,
                   norm_vars, dedup_vars, place_vars, iou_vars, handle_vars, upload_vars>>

\* Variant of TileRaises: the exception of the engine call is swallowed and the tile
\* is passed over.
TileRaises_Skip ==
    /\ pc = "awaiting"
    /\ tile_pos' = tile_pos + 1
    /\ pc' = "tile_loop"
    /\ tile_log' = Append(tile_log, LogEntry("engine_failed", NoTilePage, <<>>))
    /\ events' = Append(events, Event("raised"))
    /\ UNCHANGED <<endpoint, shared_instances, images, tile_specs, page_idx, all_blocks,
                   all_tables, all_figures, pages, response, norm_vars, dedup_vars, place_vars, iou_vars, handle_vars, upload_vars>>

\* the engine call raised: the exception leaves both loops and reaches the handler of
\* lines 942-943, 1112-1113
TileRaises ==
    /\ pc = "awaiting"
    /\ \E e \in EngineErrors : response' = tile_failure(e)
    /\ pc' = "failed"
    /\ tile_log' = Append(tile_log, LogEntry("engine_failed", NoTilePage, <<>>))
    /\ events' = Append(events, Event("raised"))
    /\ UNCHANGED <<endpoint, shared_instances, images, tile_specs, page_idx, tile_pos,
                   all_blocks, all_tables, all_figures, pages, norm_vars, dedup_vars, place_vars, iou_vars, handle_vars, upload_vars>>

\* Variant of finished_page: the tables of the page reduced to one representative.
finished_page_OneTable ==
    MkPage(page_idx, DefaultDpi, cur_img.width, cur_img.height,
           deduplicate_blocks_by_iou(all_blocks, DefaultIouThreshold),
           IF endpoint = "layout_only_tiles" /\ Len(all_tables) > 0
           THEN PyList(<<all_tables[1]>>) ELSE PyNone,
           IF endpoint = "layout_only_tiles" /\ Len(all_figures) > 0
           THEN PyList(all_figures) ELSE PyNone,
           PyNone)

\* lines 926-938, 1096-1108: after the last tile of a page
finished_page ==
    MkPage(page_idx, DefaultDpi, cur_img.width, cur_img.height,
           deduplicate_blocks_by_iou(all_blocks, DefaultIouThreshold),
           IF endpoint = "layout_only_tiles" /\ Len(all_tables) > 0
           THEN PyList(all_tables) ELSE PyNone,
           IF endpoint = "layout_only_tiles" /\ Len(all_figures) > 0
           THEN PyList(all_figures) ELSE PyNone,
           PyNone)

\* Variant of FinishPage: the page is closed when its last tile is still to be processed.
FinishPage_Early ==
    /\ pc = "tile_loop"
    /\ tile_pos >= Len(cur_tiles)
    /\ pages' = Append(pages, finished_page)
    /\ events' = Append(events, Event("resolve"))
    /\ page_idx' = page_idx + 1
    /\ pc' = "page_loop"
    /\ UNCHANGED <<endpoint, shared_instances, images, tile_specs, tile_pos, all_blocks,
                   all_tables, all_figures, response, tile_log,
                   norm_vars, dedup_vars, place_vars, iou_vars, handle_vars, upload_vars>>

FinishPage ==
    /\ pc = "tile_loop"
    /\ tile_pos > Len(cur_tiles)
    /\ pages' = Append(pages, finished_page)
    /\ events' = Append(events, Event("resolve"))
    /\ page_idx' = page_idx + 1
    /\ pc' = "page_loop"
    /\ UNCHANGED <<endpoint, shared_instances, images, tile_specs, tile_pos, all_blocks,
                   all_tables, all_figures, response, tile_log,
                   norm_vars, dedup_vars, place_vars, iou_vars, handle_vars, upload_vars>>

\* lines 940-941, 1110-1111
Respond ==
    /\ pc = "page_loop"
    /\ page_idx = Len(images)
    /\ response' = OCRResponse(pages, IF endpoint = "ocr_only_tiles"
                                      THEN "yomitoku-ocr-tiles" ELSE "yomitoku-layout-tiles")
    /\ pc' = "responded"
    /\ UNCHANGED <<endpoint, shared_instances, images, tile_specs, page_idx, tile_pos,
                   all_blocks, all_tables, all_figures, pages, tile_log, events,
                   norm_vars, dedup_vars, place_vars, iou_vars, handle_vars, upload_vars>>

(***************************************************************************)
(* Specification Spec: one request to a tile endpoint, from the grouping of *)
(* the tile specs (line 852 / 998) to the response.                         *)
(***************************************************************************)
\* two tiles side by side, each 5/8 of the page wide, sharing the middle quarter
TileBoxes ==
    { [x |-> R(0), y |-> R(0), w |-> Rat(5, 8), h |-> R(1)],
      [x |-> Rat(3, 8), y |-> R(0), w |-> Rat(5, 8), h |-> R(1)] }

TileSpecs ==
    { [pageIndex |-> i, bboxNormalized |-> b, overlap |-> Rat(1, 8)] :
        i \in 0..(MaxPages - 1), b \in TileBoxes }

Rasters == { [i \in 1..n |-> [width |-> MaxDim, height |-> MaxDim]] : n \in 1..MaxPages }

Init ==
    /\ NormIdle /\ DedupIdle /\ PlaceIdle /\ IouIdle /\ HandleIdle /\ UploadIdle
    /\ endpoint \in {"ocr_only_tiles", "layout_only_tiles"}
    /\ shared_instances \in BOOLEAN
    /\ images \in Rasters
    /\ tile_specs \in UNION { [1..k -> TileSpecs] : k \in 0..MaxTiles }
    /\ pc = "page_loop"
    /\ page_idx = 0
    /\ tile_pos = 0
    /\ all_blocks = <<>> /\ all_tables = <<>> /\ all_figures = <<>>
    /\ pages = <<>>
    /\ response = PyNone
    /\ tile_log = <<>>
    /\ events = <<>>

Next ==
    \/ SkipPage
    \/ BeginPage
    \/ DispatchTile
    \/ TileReturns
    \/ TileRaises
    \/ FinishPage
    \/ Respond

Spec == Init /\ [][Next]_vars

LogOf(p) == SelectSeq(tile_log, LAMBDA e : e.pageIndex = p)

\* one application of the transform of the Tile Coordinate Mapper to a bbox
TransformOnce(b, e) ==
    BBox(FDiv(FAdd(b.x, R(e.placement.x_px)), R(images[e.pageIndex + 1].width)),
         FDiv(FAdd(b.y, R(e.placement.y_px)), R(images[e.pageIndex + 1].height)),
         FDiv(b.w, R(images[e.pageIndex + 1].width)),
         FDiv(b.h, R(images[e.pageIndex + 1].height)))

\* a tile-local block with the transform applied once to its bbox, to the bbox of
\* each of its lines and to the bbox of each of their tokens
BlockMappedOnce(b, e) ==
    [b EXCEPT
        !.bbox = TransformOnce(b.bbox, e),
        !.lines = [l \in 1..Len(b.lines) |->
            [b.lines[l] EXCEPT
                !.bbox = TransformOnce(b.lines[l].bbox, e),
                !.tokens = [t \in 1..Len(b.lines[l].tokens) |->
                    [b.lines[l].tokens[t] EXCEPT
                        !.bbox = TransformOnce(b.lines[l].tokens[t].bbox, e)]]]]]

\* C1: every Block, Line and Token bbox of an emitted Page is exactly one application
\* of the transform x=(x0+x_px)/pageWidthPx, y=(y0+y_px)/pageHeightPx, w=w0/pageWidthPx,
\* h=h0/pageHeightPx to the tile-local value the normalizer produced.
C1_BboxMappedOnce ==
    \A i \in 1..Len(pages) :
        \A j \in 1..Len(pages[i].blocks) :
            \E k \in 1..Len(tile_log) :
                /\ tile_log[k].pageIndex = pages[i].pageIndex
                /\ \E n \in 1..Len(tile_log[k].local) :
                      pages[i].blocks[j] = BlockMappedOnce(tile_log[k].local[n], tile_log[k])

\* the pixel rectangle [x1, x2) x [y1, y2) of a tile, and of a word of that tile moved
\* to page pixels
TileRect(e) ==
    [x1 |-> e.placement.x_px, x2 |-> e.placement.x_px + e.placement.w_px,
     y1 |-> e.placement.y_px, y2 |-> e.placement.y_px + e.placement.h_px]
WordRect(e) ==
    LET b == e.local[1].bbox
    IN [x1 |-> RAdd(b.x, R(e.placement.x_px)), x2 |-> RAdd(RAdd(b.x, b.w), R(e.placement.x_px)),
        y1 |-> RAdd(b.y, R(e.placement.y_px)), y2 |-> RAdd(RAdd(b.y, b.h), R(e.placement.y_px))]

\* page p was covered by two overlapping tiles and each engine call returned one word
\* of positive area at one and the same page-space location inside the overlap region
TwoTilesOneWord(p) ==
    LET log == LogOf(p)
    IN /\ Len(log) = 2
       /\ \A k \in 1..2 : log[k].outcome = "ok" /\ Len(log[k].local) = 1
       /\ LET t1 == TileRect(log[1])
              t2 == TileRect(log[2])
              w1 == WordRect(log[1])
              w2 == WordRect(log[2])
              ox1 == IF t1.x1 > t2.x1 THEN t1.x1 ELSE t2.x1
              ox2 == IF t1.x2 < t2.x2 THEN t1.x2 ELSE t2.x2
              oy1 == IF t1.y1 > t2.y1 THEN t1.y1 ELSE t2.y1
              oy2 == IF t1.y2 < t2.y2 THEN t1.y2 ELSE t2.y2
          IN /\ log[1].spec.bboxNormalized # log[2].spec.bboxNormalized
             /\ ox1 < ox2 /\ oy1 < oy2
             /\ w1 = w2
             /\ RLt(w1.x1, w1.x2) /\ RLt(w1.y1, w1.y2)
             /\ RLe(R(ox1), w1.x1) /\ RLe(w1.x2, R(ox2))
             /\ RLe(R(oy1), w1.y1) /\ RLe(w1.y2, R(oy2))

\* C2: when the two tile specs of a page overlap and each tile's engine call returns
\* one word at the same page-space location inside the overlap, the Page that
\* ocr_only_tiles_endpoint emits for that page holds exactly one Block.
C2_OverlapWordDeduplicated ==
    (pc = "responded" /\ endpoint = "ocr_only_tiles") =>
        \A i \in 1..Len(response.pages) :
            TwoTilesOneWord(response.pages[i].pageIndex) =>
                Len(response.pages[i].blocks) = 1

\* C4: a tile spec whose pageIndex is outside the raster's pages makes the request
\* fail; no request with such a tile spec ends in an OCRResponse.
C4_OutOfRangeTileFails ==
    pc = "responded" =>
        \A k \in 1..Len(tile_specs) :
            tile_specs[k].pageIndex >= 0 /\ tile_specs[k].pageIndex < Len(images)

EngineCallFailed == \E k \in 1..Len(tile_log) : tile_log[k].outcome = "engine_failed"

\* C5: once the engine call of any tile has failed, the request ends in a failure and
\* no OCRResponse is returned: neither the pages completed before the failure nor a
\* partial page of the tiles that succeeded.
C5_EngineFailureFailsRequest ==
    EngineCallFailed =>
        /\ pc = "failed"
        /\ response.kind = "HTTPException"
        /\ response.status = 500

\* the engine failed on a tile of the second page when the first page was complete
\* and held a block
C5_Witness ==
    /\ EngineCallFailed
    /\ pc = "failed"
    /\ Len(pages) = 1
    /\ Len(pages[1].blocks) >= 1

\* the engine failed on the second tile of a page whose pool already held a block
PartialPageAtFailure ==
    /\ EngineCallFailed
    /\ pc = "failed"
    /\ Len(all_blocks) >= 1
    /\ tile_pos = 2

\* the tile remap keeps the sign of an extent: with engine boxes whose corners are in
\* order, every bbox of an emitted Page has w >= 0 and h >= 0
RemapKeepsExtentsNonNegative ==
    \A i \in 1..Len(pages) : PageExtentsNonNegative(pages[i])

\* the log entry of the tile whose engine call or conversion failed
FailedTile == tile_log[Len(tile_log)]

\* C15: the failure a tile endpoint reports for a failed engine call or conversion
\* identifies the page index and the tile index (its position among the tiles of
\* its page, counted from 0 or from 1) of the tile that failed.
C15_FailureNamesTile ==
    pc = "failed" =>
        /\ \E k \in 1..Len(response.detail) :
              response.detail[k] = ToString(FailedTile.pageIndex)
        /\ \E k \in 1..Len(response.detail) :
              response.detail[k] \in {ToString(FailedTile.tile), ToString(FailedTile.tile - 1)}

\* what the code does report: status 500 and a detail made of the endpoint's prefix
\* and the text of the exception, the same for whichever tile failed
FailureReportIsPrefixAndCause ==
    pc = "failed" =>
        /\ response.kind = "HTTPException" /\ response.status = 500
        /\ Len(response.detail) = 2
        /\ response.detail[1] \in {"Tile OCR processing failed: ",
                                    "Tile layout processing failed: "}
        /\ response.detail[2] \in EngineErrors

RECURSIVE TileTables(_)
\* the tables of the tile pages of a log, in tile order
TileTables(log) == IF log = <<>> THEN <<>> ELSE Head(log).tables \o TileTables(Tail(log))

RECURSIVE TileFigures(_)
TileFigures(log) == IF log = <<>> THEN <<>> ELSE Head(log).figures \o TileFigures(Tail(log))

\* a list field of a Page that may be absent
ListOrEmpty(field) == IF field.t = "list" THEN field.v ELSE <<>>

\* the same table (figure) but for its place
SameTable(a, b) == a.rows = b.rows /\ a.cols = b.cols /\ Len(a.cells) = Len(b.cells)
SameFigure(a, b) == a.figureType = b.figureType

\* C17: in layout_only_tiles_endpoint the tables (figures) of an emitted Page are
\* those of the page's tiles, concatenated in tile order without deduplication: as
\* many as the tiles' normalized results hold together, and the field is absent
\* exactly when there are none.
C17_TablesFiguresConcatenated ==
    endpoint = "layout_only_tiles" =>
        \A i \in 1..Len(pages) :
            LET log == LogOf(pages[i].pageIndex)
                tables == ListOrEmpty(pages[i].tables)
                figures == ListOrEmpty(pages[i].figures)
            IN /\ Len(tables) = Len(TileTables(log))
               /\ \A k \in 1..Len(tables) : SameTable(tables[k], TileTables(log)[k])
               /\ pages[i].tables = PyNone <=> Len(TileTables(log)) = 0
               /\ Len(figures) = Len(TileFigures(log))
               /\ \A k \in 1..Len(figures) : SameFigure(figures[k], TileFigures(log)[k])
               /\ pages[i].figures = PyNone <=> Len(TileFigures(log)) = 0

\* one tile spec given twice and the engine finding the same table in both tiles:
\* the Page holds the table twice, and no figures field
C17_Witness ==
    /\ endpoint = "layout_only_tiles"
    /\ pc = "responded"
    /\ Len(tile_specs) = 2 /\ tile_specs[1] = tile_specs[2]
    /\ Len(response.pages) = 1
    /\ response.pages[1].tables.t = "list"
    /\ Len(response.pages[1].tables.v) = 2
    /\ response.pages[1].tables.v[1] = response.pages[1].tables.v[2]
    /\ response.pages[1].figures = PyNone

IsEvent(j, kind, p, t) ==
    events[j].kind = kind /\ events[j].pageIndex = p /\ events[j].tile = t

\* C18: the tiles of a page go to the engine one at a time: a call is submitted only
\* when every call submitted before it has completed and its blocks have been
\* remapped and accumulated; and the Duplicate Resolver runs once per page, after
\* every tile of that page has been processed, and nothing of the page follows it.
C18_TilesOneAtATimeResolverOnce ==
    /\ \A j \in 1..Len(events) :
          events[j].kind = "submit" =>
            \A i \in 1..(j - 1) :
                events[i].kind = "submit" =>
                    \E m \in (i + 1)..(j - 1) :
                        IsEvent(m, "accumulated", events[i].pageIndex, events[i].tile)
    /\ \A j \in 1..Len(events) :
          events[j].kind = "resolve" =>
            /\ \A t \in 1..Len(tiles_by_page(events[j].pageIndex)) :
                  \E m \in 1..(j - 1) : IsEvent(m, "accumulated", events[j].pageIndex, t)
            /\ \A i \in 1..Len(events) :
                  i # j => ~IsEvent(i, "resolve", events[j].pageIndex, 0)
            /\ \A i \in (j + 1)..Len(events) : events[i].pageIndex # events[j].pageIndex
    /\ \A i \in 1..Len(pages) :
          \E j \in 1..Len(events) : IsEvent(j, "resolve", pages[i].pageIndex, 0)

\* a page of two tiles: first tile submitted and accumulated, then the second, then
\* the resolver
C18_Witness ==
    /\ pc = "responded"
    /\ Len(events) = 5
    /\ IsEvent(1, "submit", 0, 1) /\ IsEvent(2, "accumulated", 0, 1)
    /\ IsEvent(3, "submit", 0, 2) /\ IsEvent(4, "accumulated", 0, 2)
    /\ IsEvent(5, "resolve", 0, 0)
    /\ Len(tile_log[1].local) = 1 /\ Len(tile_log[2].local) = 1

\* the raster page indexes that have a tile spec
TiledPages == { p \in 0..(Len(images) - 1) : \E k \in 1..Len(tile_specs) : tile_specs[k].pageIndex = p }

\* C6: the pages of a successful response are one Page per raster page index that has
\* a tile spec, in strictly increasing pageIndex order; a raster page without tile
\* spec contributes no Page and the request still succeeds.
C6_OnePagePerTiledPage ==
    pc = "responded" =>
        /\ response.kind = "OCRResponse"
        /\ { response.pages[i].pageIndex : i \in 1..Len(response.pages) } = TiledPages
        /\ Len(response.pages) = Cardinality(TiledPages)
        /\ \A i \in 1..(Len(response.pages) - 1) :
              response.pages[i].pageIndex < response.pages[i + 1].pageIndex

\* a raster of two pages where only the second page has tiles: the response is
\* the one Page of index 1
C6_Witness ==
    /\ pc = "responded"
    /\ Len(images) = 2
    /\ TiledPages = {1}
    /\ Len(response.pages) = 1
    /\ response.pages[1].pageIndex = 1

(***************************************************************************)
(* Specification SpecPlace: the pixel placement of one tile (lines 877-881, *)
(* 1024-1028) for a normalized bbox in eighths and a page size.             *)
(***************************************************************************)
PlaceBoxes ==
    { [x |-> Rat(a, 8), y |-> Rat(b, 8), w |-> Rat(c, 8), h |-> Rat(d, 8)] :
        a \in {-3, 0, 3, 5}, b \in {0, 3}, c \in {3, 5, 8}, d \in {5, 8} }

PlaceSizes == { [width |-> w, height |-> h] : w \in 1..MaxDim, h \in 1..MaxDim }

InitPlace ==
    /\ ReqIdle /\ NormIdle /\ DedupIdle /\ IouIdle /\ HandleIdle /\ UploadIdle
    /\ p_box \in PlaceBoxes
    /\ p_size \in PlaceSizes
    /\ p_out = PyNone
    /\ p_pc = "start"

PlaceTile ==
    /\ p_pc = "start"
    /\ p_out' = tile_placement(p_box, p_size.width, p_size.height)
    /\ p_pc' = "done"
    /\ UNCHANGED <<p_box, p_size, req_vars, norm_vars, dedup_vars, iou_vars, handle_vars, upload_vars>>

NextPlace == PlaceTile

SpecPlace == InitPlace /\ [][NextPlace]_vars

\* C10 as claimed: the pixel placement is the normalized bbox times the page size
\* rounded to the nearest integer.
C10_PlacementRounds ==
    p_pc = "done" =>
        /\ p_out.x_px = PyRound(RMul(p_box.x, R(p_size.width)))
        /\ p_out.y_px = PyRound(RMul(p_box.y, R(p_size.height)))
        /\ p_out.w_px = PyRound(RMul(p_box.w, R(p_size.width)))
        /\ p_out.h_px = PyRound(RMul(p_box.h, R(p_size.height)))

\* q is r with its fraction cut off: the integer next to r on the side of zero
IsTruncation(q, r) ==
    IF r.n >= 0 THEN RLe(R(q), r) /\ RLt(r, R(q + 1))
    ELSE RLe(r, R(q)) /\ RLt(R(q - 1), r)

\* C10 (amended): the pixel placement is the normalized bbox times the page size
\* truncated toward zero (Python int()), not rounded.
C10_PlacementTruncates ==
    p_pc = "done" =>
        /\ IsTruncation(p_out.x_px, RMul(p_box.x, R(p_size.width)))
        /\ IsTruncation(p_out.y_px, RMul(p_box.y, R(p_size.height)))
        /\ IsTruncation(p_out.w_px, RMul(p_box.w, R(p_size.width)))
        /\ IsTruncation(p_out.h_px, RMul(p_box.h, R(p_size.height)))

\* a placement where truncation and rounding part: x = -3/8 on a page 4 wide gives
\* x_px = -1 (round gives -2), and w = 5/8 on a page 3 wide gives w_px = 1 (round gives 2)
C10_Witness ==
    /\ p_pc = "done"
    /\ p_box.x.n < 0
    /\ p_out.x_px # PyRound(RMul(p_box.x, R(p_size.width)))
    /\ p_out.w_px # PyRound(RMul(p_box.w, R(p_size.width)))
    /\ p_out.h_px = PyRound(RMul(p_box.h, R(p_size.height)))

(***************************************************************************)
(* Specification SpecDedup: one call of deduplicate_blocks_by_iou on a     *)
(* pool of blocks in page-normalized space, then a call on its output.     *)
(***************************************************************************)
\* b1/b2 overlap with IoU 1/3, b1/b3 with IoU 1/2, b2/b3 with IoU 1/5 (each as the
\* float nearest to it), b4 is apart
PoolBoxes ==
    { BBox(R(0), R(0), Rat(1, 2), Rat(1, 2)),
      BBox(Rat(1, 4), R(0), Rat(1, 2), Rat(1, 2)),
      BBox(R(0), R(0), Rat(1, 2), Rat(1, 4)),
      BBox(Rat(3, 4), Rat(3, 4), Rat(1, 4), Rat(1, 4)) }

\* one token of confidence 1/2; two lines with confidences 1 and None; no token at all
PoolBlocksAt(bbox) ==
    { MkBlock("A", bbox, "ocr_word",
              <<MkLine("A", bbox, <<MkToken("A", bbox, PyFloat(Rat(1, 2)))>>)>>),
      MkBlock("AA", bbox, "text",
              <<MkLine("A", bbox, <<MkToken("A", bbox, PyFloat(R(1)))>>),
                MkLine("A", bbox, <<MkToken("A", bbox, PyNone)>>)>>),
      MkBlock("AAA", bbox, "text", <<MkLine("AAA", bbox, <<>>)>>) }

PoolBlocks == UNION { PoolBlocksAt(bbox) : bbox \in PoolBoxes }

Pools == UNION { [1..n -> PoolBlocks] : n \in 0..MaxPool }

\* the floats 0.2 and 0.5
Thresholds == { Fl(Rat(1, 5)), Rat(1, 2) }

InitDedup ==
    /\ ReqIdle /\ NormIdle /\ PlaceIdle /\ IouIdle /\ HandleIdle /\ UploadIdle
    /\ d_pool \in Pools
    /\ d_thr \in Thresholds
    /\ d_out = <<>> /\ d_out2 = <<>>
    /\ d_pc = "start"

DedupCall ==
    /\ d_pc = "start"
    /\ d_out' = deduplicate_blocks_by_iou(d_pool, d_thr)
    /\ d_pc' = "once"
    /\ UNCHANGED <<d_pool, d_thr, d_out2, req_vars, norm_vars, place_vars, iou_vars, handle_vars, upload_vars>>

DedupAgain ==
    /\ d_pc = "once"
    /\ d_out2' = deduplicate_blocks_by_iou(d_out, d_thr)
    /\ d_pc' = "twice"
    /\ UNCHANGED <<d_pool, d_thr, d_out, req_vars, norm_vars, place_vars, iou_vars, handle_vars, upload_vars>>

NextDedup == DedupCall \/ DedupAgain

SpecDedup == InitDedup /\ [][NextDedup]_vars

SeqRange(s) == { s[i] : i \in 1..Len(s) }
Count(s, e) == Cardinality({ i \in 1..Len(s) : s[i] = e })
\* an occurrence of block b of the pool is missing from the output
Discarded(b) == Count(d_pool, b) > Count(d_out, b)

\* C7: deduplicate_blocks_by_iou run on its own output with the same threshold
\* returns the same blocks: the same set, none dropped, none added.
C7_Idempotent ==
    d_pc = "twice" =>
        /\ SeqRange(d_out2) = SeqRange(d_out)
        /\ \A b \in SeqRange(d_out) : Count(d_out2, b) = Count(d_out, b)

\* a first run that dropped a duplicate and kept at least two blocks, run again
C7_Witness ==
    d_pc = "twice" /\ Len(d_out) >= 2 /\ Len(d_out) < Len(d_pool)

\* The score as the claim words it: mean token confidence over all lines, a missing
\* confidence counted as 0, a block without tokens scoring 0; then the text length.
C8_Score(b) ==
    LET n == TokenCount(b.lines)
    IN [conf |-> IF n = 0 THEN R(0) ELSE RDiv(ConfSum(b.lines), R(n)), len |-> Len(b.text)]

\* C8: every discarded block has IoU > threshold with a kept block whose score
\* (mean confidence, text length), compared lexicographically, is >= its own; and of
\* two blocks with the same positive-area bbox and equal mean confidence the one with
\* the longer text is the one kept.
C8_DiscardedHasBetterDuplicate ==
    d_pc \in {"once", "twice"} =>
        /\ \A b \in SeqRange(d_pool) :
              Discarded(b) =>
                \E k \in SeqRange(d_out) :
                    /\ RLt(d_thr, calculate_bbox_iou(b.bbox, k.bbox))
                    /\ ScoreGe(C8_Score(k), C8_Score(b))
        /\ (/\ Len(d_pool) = 2
            /\ d_pool[1].bbox = d_pool[2].bbox
            /\ RLt(R(0), RMul(d_pool[1].bbox.w, d_pool[1].bbox.h))
            /\ C8_Score(d_pool[1]).conf = C8_Score(d_pool[2]).conf
            /\ Len(d_pool[1].text) # Len(d_pool[2].text))
           => LET longer == IF Len(d_pool[1].text) > Len(d_pool[2].text)
                            THEN d_pool[1] ELSE d_pool[2]
              IN d_out = <<longer>>

\* texts "A" then "AA" on one bbox with equal mean confidence: "AA" alone is kept
C8_Witness ==
    /\ d_pc = "once"
    /\ Len(d_pool) = 2
    /\ d_pool[1].bbox = d_pool[2].bbox
    /\ d_pool[1].text = "A" /\ d_pool[2].text = "AA"
    /\ C8_Score(d_pool[1]).conf = C8_Score(d_pool[2]).conf
    /\ d_thr = Rat(1, 2)
    /\ d_out = <<d_pool[2]>>

\* position i of the pool has IoU <= threshold with every other position
Isolated(i) ==
    \A j \in 1..Len(d_pool) :
        j # i => RLe(calculate_bbox_iou(d_pool[i].bbox, d_pool[j].bbox), d_thr)

\* C9: a block whose IoU with every other block of the pool is at most the threshold
\* is in the output whatever its score, and a block is discarded only when its IoU
\* with a kept block strictly exceeds the threshold.
C9_IsolatedKept ==
    d_pc \in {"once", "twice"} =>
        /\ \A i \in 1..Len(d_pool) : Isolated(i) => d_pool[i] \in SeqRange(d_out)
        /\ \A b \in SeqRange(d_pool) :
              Discarded(b) =>
                \E k \in SeqRange(d_out) : RLt(d_thr, calculate_bbox_iou(b.bbox, k.bbox))

\* the lowest-scored block of the pool overlaps another one with IoU exactly equal to
\* the threshold and is kept, while some other block is discarded
C9_Witness ==
    /\ d_pc = "once"
    /\ Len(d_out) < Len(d_pool)
    /\ \E i \in 1..Len(d_pool) :
          /\ Isolated(i)
          /\ \E j \in 1..Len(d_pool) :
                j # i /\ calculate_bbox_iou(d_pool[i].bbox, d_pool[j].bbox) = d_thr
                      /\ RLt(R(0), d_thr)
          /\ \A j \in 1..Len(d_pool) :
                j # i => ScoreLt(block_score(d_pool[i]), block_score(d_pool[j]))
          /\ d_pool[i] \in SeqRange(d_out)

\* C20: the output of deduplicate_blocks_by_iou is a sub-collection of the input
\* blocks, none added or altered; no two blocks at different places of it have
\* IoU strictly above the threshold; and a non-empty input gives a non-empty output
\* that holds a block of maximal score.
C20_OutputIsCleanSubCollection ==
    d_pc \in {"once", "twice"} =>
        /\ \A b \in SeqRange(d_out) : Count(d_out, b) <= Count(d_pool, b)
        /\ \A i, j \in 1..Len(d_out) :
              i # j => RLe(calculate_bbox_iou(d_out[i].bbox, d_out[j].bbox), d_thr)
        /\ d_pool # <<>> =>
              \E k \in 1..Len(d_out) :
                  \A i \in 1..Len(d_pool) : ScoreGe(C8_Score(d_out[k]), C8_Score(d_pool[i]))

\* a pool of three whose best block comes last and overlaps the first beyond the
\* threshold: the first is dropped, the best and the block apart are kept
C20_Witness ==
    /\ d_pc = "once"
    /\ Len(d_pool) = 3 /\ Len(d_out) = 2
    /\ d_thr = Rat(1, 2)
    /\ ScoreLt(C8_Score(d_pool[1]), C8_Score(d_pool[3]))
    /\ ScoreLt(C8_Score(d_pool[2]), C8_Score(d_pool[3]))
    /\ RLt(d_thr, calculate_bbox_iou(d_pool[1].bbox, d_pool[3].bbox))
    /\ d_out = <<d_pool[3], d_pool[2]>>

(***************************************************************************)
(* Specification SpecIou: one call of calculate_bbox_iou on two boxes with *)
(* w >= 0 and h >= 0.                                                      *)
(***************************************************************************)
\* the floats 0.0, 0.1, 0.3, 0.5 and 1.0
IouOrigins == { R(0), Fl(Rat(1, 10)), Fl(Rat(3, 10)), Rat(1, 2), R(1) }

\* the floats 0.0, 0.1, 0.2, 0.7 and 1.0
IouExtents == { R(0), Fl(Rat(1, 10)), Fl(Rat(1, 5)), Fl(Rat(7, 10)), R(1) }

IouBoxes ==
    { BBox(x, y, w, h) : x \in IouOrigins, y \in {R(0), Rat(1, 2)},
                         w \in IouExtents, h \in {R(0), Rat(1, 2), R(1)} }

InitIou ==
    /\ ReqIdle /\ NormIdle /\ DedupIdle /\ PlaceIdle /\ HandleIdle /\ UploadIdle
    /\ i_bbox1 \in IouBoxes
    /\ i_bbox2 \in IouBoxes
    /\ i_out = PyNone
    /\ i_pc = "start"

\* the call: no statement of the function can raise for float fields (the one
\* division is guarded by union > 0)
IouCall ==
    /\ i_pc = "start"
    /\ i_out' = Ok(calculate_bbox_iou(i_bbox1, i_bbox2))
    /\ i_pc' = "returned"
    /\ UNCHANGED <<i_bbox1, i_bbox2, req_vars, norm_vars, dedup_vars, place_vars, handle_vars, upload_vars>>

NextIou == IouCall

SpecIou == InitIou /\ [][NextIou]_vars

\* C13: calculate_bbox_iou never raises and returns a value in [0, 1] for every pair
\* of boxes with w >= 0 and h >= 0, boxes of no area included.
C13_IouInUnitInterval ==
    i_pc = "returned" =>
        /\ i_out.exc = ""
        /\ RLe(R(0), i_out.val)
        /\ RLe(i_out.val, R(1))

\* the part of C13 that the code meets: no exception, never below 0, and 0 when
\* one of the boxes has no area
IouNeverNegative ==
    i_pc = "returned" =>
        /\ i_out.exc = ""
        /\ RLe(R(0), i_out.val)
        /\ (i_bbox1.w.n = 0 \/ i_bbox1.h.n = 0 \/ i_bbox2.w.n = 0 \/ i_bbox2.h.n = 0)
              => i_out.val = R(0)

(***************************************************************************)
(* Specification SpecHandles: the process from its start: startup_event,   *)
(* then up to MaxRequests requests whose handlers interleave at their      *)
(* awaits.  A handler runs on the event loop from one await to the next    *)
(* without interruption; the first await of every handler (file.read())    *)
(* comes after its engine handle is in place.                              *)
(***************************************************************************)
\* the globals of lines 46-49, in the order startup_event constructs them
Handles == <<"analyzer", "lite_analyzer", "ocr_module", "layout_analyzer">>

HandleNames == { Handles[i] : i \in 1..Len(Handles) }

\* the endpoints and the global each one uses
EndpointCalls ==
    { [path |-> "/ocr", lite |-> FALSE, handle |-> "analyzer"],
      [path |-> "/ocr", lite |-> TRUE, handle |-> "lite_analyzer"],
      [path |-> "/ocr/ocr-only", lite |-> FALSE, handle |-> "ocr_module"],
      [path |-> "/ocr/layout", lite |-> FALSE, handle |-> "layout_analyzer"],
      [path |-> "/ocr/ocr-only/tiles", lite |-> FALSE, handle |-> "ocr_module"],
      [path |-> "/ocr/layout/tiles", lite |-> FALSE, handle |-> "layout_analyzer"] }

InitHandles ==
    /\ ReqIdle /\ NormIdle /\ DedupIdle /\ PlaceIdle /\ IouIdle /\ UploadIdle
    /\ serving = FALSE
    /\ handle_global = [h \in HandleNames |-> 0]       \* 0: None, k: the k-th object built
    /\ handle_built = [h \in HandleNames |-> <<>>]     \* who built: 0 startup, r request r
    /\ requests = [r \in 1..MaxRequests |-> [pc |-> "new", call |-> PyNone]]

\* a constructor returned: the global is bound to the new object
construct(h, by) ==
    /\ handle_built' = [handle_built EXCEPT ![h] = Append(@, by)]
    /\ handle_global' = [handle_global EXCEPT ![h] = Len(handle_built[h]) + 1]

\* lines 118-165: the four constructors in order inside one try; the first one that
\* raises ends the loading (loaded = number of handles constructed)
startup_event ==
    /\ ~serving
    /\ \E loaded \in 0..Len(Handles) :
          /\ handle_built' = [h \in HandleNames |->
                                IF \E i \in 1..loaded : Handles[i] = h
                                THEN Append(handle_built[h], 0) ELSE handle_built[h]]
          /\ handle_global' = [h \in HandleNames |->
                                 IF \E i \in 1..loaded : Handles[i] = h
                                 THEN Len(handle_built[h]) + 1 ELSE handle_global[h]]
    /\ serving' = TRUE
    /\ UNCHANGED <<requests, req_vars, norm_vars, dedup_vars, place_vars, iou_vars, upload_vars>>

\* Variant of needs_construction: the handler constructs without testing the global.
needs_construction_Always(h) == TRUE

\* `if ocr_module is None:` and its likes (lines 579, 680, 749, 832, 978)
needs_construction(h) == handle_global[h] = 0

\* a handler from its entry to its first await: validation (400), then the engine
\* handle: constructed when the global is None, HTTPException(500) when the
\* constructor raises
HandlerStarts(r) ==
    /\ serving
    /\ requests[r].pc = "new"
    /\ \E call \in EndpointCalls, valid \in BOOLEAN, constructed \in BOOLEAN :
          IF ~valid
          THEN /\ requests' = [requests EXCEPT ![r] = [pc |-> "rejected", call |-> PyNone]]
               /\ UNCHANGED <<handle_global, handle_built>>
          ELSE IF ~needs_construction(call.handle)
          THEN /\ requests' = [requests EXCEPT ![r] = [pc |-> "reading", call |-> call]]
               /\ UNCHANGED <<handle_global, handle_built>>
          ELSE IF constructed
          THEN /\ construct(call.handle, r)
               /\ requests' = [requests EXCEPT ![r] = [pc |-> "reading", call |-> call]]
          ELSE /\ requests' = [requests EXCEPT ![r] = [pc |-> "failed", call |-> PyNone]]
               /\ UNCHANGED <<handle_global, handle_built>>
    /\ UNCHANGED <<serving, req_vars, norm_vars, dedup_vars, place_vars, iou_vars, upload_vars>>

\* `content = await file.read()` returned; the handler goes on to its engine calls
FileRead(r) ==
    /\ requests[r].pc = "reading"
    /\ requests' = [requests EXCEPT ![r].pc = "running"]
    /\ UNCHANGED <<serving, handle_global, handle_built,
                   req_vars, norm_vars, dedup_vars, place_vars, iou_vars, upload_vars>>

\* the handler returned its response or raised
HandlerEnds(r) ==
    /\ requests[r].pc = "running"
    /\ requests' = [requests EXCEPT ![r] = [pc |-> "ended", call |-> PyNone]]
    /\ UNCHANGED <<serving, handle_global, handle_built,
                   req_vars, norm_vars, dedup_vars, place_vars, iou_vars, upload_vars>>

NextHandles ==
    \/ startup_event
    \/ \E r \in 1..MaxRequests : HandlerStarts(r)
    \/ \E r \in 1..MaxRequests : FileRead(r)
    \/ \E r \in 1..MaxRequests : HandlerEnds(r)

SpecHandles == InitHandles /\ [][NextHandles]_vars

\* C16: each engine handle is successfully constructed at most once per process: once
\* its global is bound, no later request constructs it again or rebinds the global.
C16_HandleBuiltAtMostOnce ==
    \A h \in HandleNames :
        /\ Len(handle_built[h]) <= 1
        /\ handle_global[h] = Len(handle_built[h])

\* startup loaded nothing; request 1 built the OCR module on first use, and requests
\* 1 and 2, to the two endpoints that use it, are both suspended in file.read()
C16_Witness ==
    /\ serving
    /\ handle_built["ocr_module"] = <<1>>
    /\ handle_built["analyzer"] = <<>>
    /\ requests[1].pc = "reading" /\ requests[2].pc = "reading"
    /\ requests[1].call.path = "/ocr/ocr-only/tiles"
    /\ requests[2].call.path = "/ocr/ocr-only"

(***************************************************************************)
(* Specification SpecUpload: one request that uploads a file to one of the *)
(* five endpoints, from the handler's entry to its response: validation,   *)
(* engine handle, file.read(), the raster (PDF or image), the processing.  *)
(* A detail string is kept as the sequence of its parts.                    *)
(***************************************************************************)
Paths == { "/ocr", "/ocr/ocr-only", "/ocr/layout", "/ocr/ocr-only/tiles", "/ocr/layout/tiles" }

TilePaths == { "/ocr/ocr-only/tiles", "/ocr/layout/tiles" }

Filenames == { PyNone, PyStr("doc.pdf"), PyStr("DOC.PDF"), PyStr("scan.png"), PyStr("doc") }

ContentTypes == { PyNone, PyStr("application/pdf"), PyStr("image/png"), PyStr("text/plain") }

Uploads == { [filename |-> f, content_type |-> c] : f \in Filenames, c \in ContentTypes }

Dpis == { 71, 72, 600, 601 }

\* Path(filename).suffix
Suffix(filename) ==
    CASE filename = "doc.pdf" -> ".pdf"
      [] filename = "DOC.PDF" -> ".PDF"
      [] filename = "scan.png" -> ".png"
      [] OTHER -> ""

\* str.lower() on the suffixes above
Lower(str) == IF str = ".PDF" THEN ".pdf" ELSE str

\* lines 186-191
allowed_types ==
    [ct \in {"application/pdf", "image/png", "image/jpeg"} |->
        CASE ct = "application/pdf" -> {".pdf"}
          [] ct = "image/png" -> {".png"}
          [] OTHER -> {".jpg", ".jpeg"}]

\* lines 177-183: what validate_dpi raises, None when it returns
validate_dpi(dpi) ==
    IF ~(72 <= dpi /\ dpi <= 600)
    THEN HTTPException(400, <<"DPI must be between 72 and 600, got ", dpi>>)
    ELSE PyNone

\* lines 186-204: what validate_file_type raises, None when it returns
validate_file_type(filename, content_type) ==
    IF content_type \notin DOMAIN allowed_types
    THEN HTTPException(400, <<"Unsupported file type: ", content_type, ". Allowed: PDF, PNG, JPEG">>)
    ELSE LET ext == Lower(Suffix(filename))
         IN IF ext \notin allowed_types[content_type]
            THEN HTTPException(400, <<"File extension ", ext, " does not match content type ",
                                      content_type>>)
            ELSE PyNone

\* lines 229-233: what process_pdf_to_images raises before it converts, None when it
\* goes on to convert_from_bytes
process_pdf_to_images ==
    IF convert_from_bytes = PyNone
    THEN HTTPException(400, <<"PDF support not available. Install pdf2image and poppler.">>)
    ELSE PyNone

\* lines 589-594, 684-685, 752-753, 835-836, 981-982: the constructor of the handle raised
init_failure(path, e) ==
    HTTPException(500, << CASE path = "/ocr" -> "Failed to initialize YomiToku: "
                            [] path \in {"/ocr/ocr-only", "/ocr/ocr-only/tiles"} ->
                                 "Failed to initialize OCR module: "
                            [] OTHER -> "Failed to initialize LayoutAnalyzer: ", e >>)

\* lines 649-653, 720-721, 789-790, 942-943, 1112-1113: `except Exception as e` around
\* the handler's try block raises HTTPException(500) with a prefix and str(e);
\* HTTPException is a subclass of Exception, so one raised inside the block is caught too
handler_failure(path, e) ==
    HTTPException(500, << CASE path = "/ocr" -> "OCR processing failed: "
                            [] path = "/ocr/ocr-only" -> "OCR-only processing failed: "
                            [] path = "/ocr/layout" -> "Layout-only processing failed: "
                            [] path = "/ocr/ocr-only/tiles" -> "Tile OCR processing failed: "
                            [] OTHER -> "Tile layout processing failed: ", e >>)

\* an exception of a library, by its class
LibraryError(class) == [kind |-> class]

\* file_ext = Path(file.filename or "").suffix.lower()
file_ext == Lower(Suffix(PyOr(u_file.filename, PyStr("")).v))

InitUpload ==
    /\ ReqIdle /\ NormIdle /\ DedupIdle /\ PlaceIdle /\ IouIdle /\ HandleIdle
    /\ convert_from_bytes \in { PyNone, [t |-> "function"] }
    /\ u_path \in Paths
    /\ u_file \in Uploads
    /\ u_dpi \in Dpis
    /\ u_pc = "new"
    /\ u_raised = PyNone
    /\ u_response = PyNone

\* the handler up to its first await: validate_dpi, validate_file_type, json.loads of
\* the tiles field (tile endpoints), the engine handle; nothing of it is inside the try
UploadStarts ==
    /\ u_pc = "new"
    /\ LET dpi_error == validate_dpi(u_dpi)
           type_error == validate_file_type(PyOr(u_file.filename, PyStr("unknown")).v,
                                            PyOr(u_file.content_type, PyStr("")).v)
       IN IF dpi_error # PyNone
          THEN u_response' = dpi_error /\ u_pc' = "rejected"
          ELSE IF type_error # PyNone
          THEN u_response' = type_error /\ u_pc' = "rejected"
          ELSE \E tiles_parsed \in BOOLEAN, handle_ready \in BOOLEAN :
                  IF u_path \in TilePaths /\ ~tiles_parsed
                  THEN /\ u_response' = HTTPException(400, <<"Invalid tiles JSON format">>)
                       /\ u_pc' = "rejected"
                  ELSE IF ~handle_ready
                  THEN /\ u_response' = init_failure(u_path, LibraryError("RuntimeError"))
                       /\ u_pc' = "rejected"
                  ELSE u_pc' = "reading" /\ UNCHANGED u_response
    /\ UNCHANGED <<convert_from_bytes, u_path, u_file, u_dpi, u_raised,
                   req_vars, norm_vars, dedup_vars, place_vars, iou_vars, handle_vars>>

\* content = await file.read() returned
UploadRead ==
    /\ u_pc = "reading"
    /\ u_pc' = "loading"
    /\ UNCHANGED <<convert_from_bytes, u_path, u_file, u_dpi, u_raised, u_response,
                   req_vars, norm_vars, dedup_vars, place_vars, iou_vars, handle_vars>>

\* an exception left the try block: the handler's except clause turns it into its 500
raise_in_try(e) ==
    /\ u_raised' = e
    /\ u_response' = handler_failure(u_path, e)
    /\ u_pc' = "failed"

\* the first statement of the try block: process_pdf_to_images for a .pdf upload,
\* Image.open and normalize_image_dpi otherwise
LoadImages ==
    /\ u_pc = "loading"
    /\ IF file_ext = ".pdf"
       THEN IF process_pdf_to_images # PyNone
            THEN raise_in_try(process_pdf_to_images)
            ELSE \E converted \in BOOLEAN :
                    IF converted THEN u_pc' = "rasterized" /\ UNCHANGED <<u_raised, u_response>>
                    ELSE raise_in_try(LibraryError("PDFSyntaxError"))
       ELSE \E opened \in BOOLEAN :
               IF opened THEN u_pc' = "rasterized" /\ UNCHANGED <<u_raised, u_response>>
               ELSE raise_in_try(LibraryError("UnidentifiedImageError"))
    /\ UNCHANGED <<convert_from_bytes, u_path, u_file, u_dpi,
                   req_vars, norm_vars, dedup_vars, place_vars, iou_vars, handle_vars>>

\* the rest of the try block: the pages are processed and the OCRResponse returned,
\* or an engine call raises
UploadProcessed ==
    /\ u_pc = "rasterized"
    /\ \E done \in BOOLEAN :
          IF done
          THEN /\ u_response' = [kind |-> "OCRResponse", status |-> 200]
               /\ u_pc' = "responded"
               /\ UNCHANGED u_raised
          ELSE raise_in_try(LibraryError("RuntimeError"))
    /\ UNCHANGED <<convert_from_bytes, u_path, u_file, u_dpi,
                   req_vars, norm_vars, dedup_vars, place_vars, iou_vars, handle_vars>>

NextUpload == UploadStarts \/ UploadRead \/ LoadImages \/ UploadProcessed

SpecUpload == InitUpload /\ [][NextUpload]_vars

\* the request went into process_pdf_to_images while convert_from_bytes was None
PdfUploadWithoutSupport ==
    /\ u_pc \in {"failed", "rasterized", "responded"}
    /\ file_ext = ".pdf"
    /\ convert_from_bytes = PyNone

\* C21: when PDF support is not available (convert_from_bytes is None), a request
\* that uploads a PDF to any endpoint ends with the HTTP error of status 400
\* ("PDF support not available") that process_pdf_to_images raises.
C21_PdfWithoutSupportGives400 ==
    PdfUploadWithoutSupport =>
        /\ u_pc = "failed"
        /\ u_response.kind = "HTTPException"
        /\ u_response.status = 400
        /\ u_response.detail = process_pdf_to_images.detail

\* what the five handlers do instead: the 400 is raised inside the try block and
\* the except clause answers 500, with the 400 as the cause in its detail
PdfWithoutSupportGives500 ==
    PdfUploadWithoutSupport =>
        /\ u_pc = "failed"
        /\ u_raised = process_pdf_to_images
        /\ u_raised.status = 400
        /\ u_response = handler_failure(u_path, u_raised)
        /\ u_response.status = 500

====
